---- MODULE Spec2Model ----
(***************************************************************************)
(* Model of inventory_system.py: a dictionary-based inventory with         *)
(* add/remove/query operations, a low-stock report and JSON persistence.   *)
(*                                                                         *)
(* Python values are tagged records so that the dynamic type checks of the *)
(* code (isinstance, +, -, <) can be followed.  A dict is an insertion-    *)
(* ordered sequence of entries.  The backing file holds JSON text as a     *)
(* sequence of tokens; integers are written as decimal digit strings.      *)
(***************************************************************************)
EXTENDS Integers, Sequences, FiniteSets, TLC

VARIABLES stock_data, file, call, old, pc, args

vars == <<stock_data, file, call, old, pc, args>>

\* ---------------------------------------------------------------- bounds
MaxQty == 2
MaxStock == 2

\* ------------------------------------------------------ program constants
DefaultThreshold == 5

Items == {"apple", "orange"}

\* --------------------------------------------------------- Python values
PyInt(n) == [t |-> "int", s |-> "", n |-> n]
PyStr(s) == [t |-> "str", s |-> s, n |-> 0]
PyNone == [t |-> "none", s |-> "", n |-> 0]

Range(seq) == {seq[i] : i \in 1..Len(seq)}

Abs(n) == IF n < 0 THEN -n ELSE n

\* Lexicographic order of the strings of the model.
StrOrder == <<"", "apple", "orange", "ten">>

StrRank(s) == CHOOSE i \in 1..Len(StrOrder) : StrOrder[i] = s

\* a < b raises TypeError unless both are int or both are str.
Comparable(a, b) == a.t = b.t /\ a.t \in {"int", "str"}

PyLessEq(a, b) ==
    IF a.t = "int" THEN a.n <= b.n ELSE StrRank(a.s) <= StrRank(b.s)

PyLess(a, b) ==
    IF a.t = "int" THEN a.n < b.n ELSE StrRank(a.s) < StrRank(b.s)

\* ------------------------------------------------------------------ dict
Entry(k, v) == [k |-> k, v |-> v]

PyObj(t, items) == [t |-> t, items |-> items]

EmptyDict == PyObj("dict", <<>>)

Keys(d) == {d.items[i].k : i \in 1..Len(d.items)}

Has(d, k) == d.t = "dict" /\ k \in Keys(d)

Find(d, k) == CHOOSE i \in 1..Len(d.items) : d.items[i].k = k

\* d[k] for a key that is present
DictItem(d, k) == d.items[Find(d, k)].v

\* d.get(k, default)
DictGet(d, k, default) == IF Has(d, k) THEN DictItem(d, k) ELSE default

\* d[k] = v : a new key goes last, an existing key keeps its position
DictSet(d, k, v) ==
    IF Has(d, k)
    THEN [d EXCEPT !.items[Find(d, k)].v = v]
    ELSE [d EXCEPT !.items = Append(@, Entry(k, v))]

\* del d[k]
DictDel(d, k) ==
    LET Keep(e) == e.k # k
    IN  [d EXCEPT !.items = SelectSeq(@, Keep)]

\* ------------------------------------------------------------- JSON text
Tok(k, s, neg, d) == [k |-> k, s |-> s, neg |-> neg, d |-> d]

LBrace == Tok("lbrace", "", FALSE, <<>>)
RBrace == Tok("rbrace", "", FALSE, <<>>)
LBracket == Tok("lbracket", "", FALSE, <<>>)
RBracket == Tok("rbracket", "", FALSE, <<>>)
Colon == Tok("colon", "", FALSE, <<>>)
Comma == Tok("comma", "", FALSE, <<>>)
TStr(s) == Tok("str", s, FALSE, <<>>)

RECURSIVE Digits(_)
Digits(n) == IF n < 10 THEN <<n>> ELSE Digits(n \div 10) \o <<n % 10>>

RECURSIVE DigitsToInt(_)
DigitsToInt(d) ==
    IF d = <<>> THEN 0
    ELSE DigitsToInt(SubSeq(d, 1, Len(d) - 1)) * 10 + d[Len(d)]

TNum(n) == Tok("num", "", n < 0, Digits(Abs(n)))

\* the encoder's text of a scalar
DumpScalar(v) == IF v.t = "int" THEN <<TNum(v.n)>> ELSE <<TStr(v.s)>>

RECURSIVE DumpMembers(_)
DumpMembers(items) ==
    IF items = <<>> THEN <<>>
    ELSE <<TStr(Head(items).k), Colon>> \o DumpScalar(Head(items).v)
         \o (IF Len(items) > 1 THEN <<Comma>> ELSE <<>>)
         \o DumpMembers(Tail(items))

RECURSIVE DumpElements(_)
DumpElements(items) ==
    IF items = <<>> THEN <<>>
    ELSE DumpScalar(Head(items).v)
         \o (IF Len(items) > 1 THEN <<Comma>> ELSE <<>>)
         \o DumpElements(Tail(items))

\* json.dump(obj, f, indent=4); the indentation is white space between
\* tokens and is not represented.
json_dump(obj) ==
    IF obj.t = "dict" THEN <<LBrace>> \o DumpMembers(obj.items) \o <<RBrace>>
    ELSE IF obj.t = "list"
    THEN <<LBracket>> \o DumpElements(obj.items) \o <<RBracket>>
    ELSE DumpScalar(obj.items[1].v)

\* a number token is well formed when it has digits and no leading zero
IsScalarTok(tok) ==
    \/ tok.k = "str"
    \/ /\ tok.k = "num"
       /\ Len(tok.d) >= 1
       /\ (Len(tok.d) > 1 => tok.d[1] # 0)

ScalarOfUnsigned(tok) ==
    IF tok.k = "num" THEN PyInt(DigitsToInt(tok.d)) ELSE PyStr(tok.s)

ScalarOf(tok) ==
    IF tok.k = "num"
    THEN PyInt(IF tok.neg THEN 0 - DigitsToInt(tok.d) ELSE DigitsToInt(tok.d))
    ELSE PyStr(tok.s)

DecodeError == [ok |-> FALSE, val |-> EmptyDict]

Decoded(obj) == [ok |-> TRUE, val |-> obj]

\* members of an object from position i on; a repeated key keeps its first
\* position and takes the last value
RECURSIVE ParseMembers(_, _, _)
ParseMembers(text, i, acc) ==
    IF i + 3 > Len(text) THEN DecodeError
    ELSE IF \/ text[i].k # "str"
            \/ text[i + 1].k # "colon"
            \/ ~IsScalarTok(text[i + 2])
    THEN DecodeError
    ELSE LET acc2 == DictSet(acc, text[i].s, ScalarOf(text[i + 2]))
         IN  IF text[i + 3].k = "rbrace"
             THEN (IF i + 3 = Len(text) THEN Decoded(acc2) ELSE DecodeError)
             ELSE IF text[i + 3].k = "comma"
             THEN ParseMembers(text, i + 4, acc2)
             ELSE DecodeError

RECURSIVE ParseElements(_, _, _)
ParseElements(text, i, acc) ==
    IF i + 1 > Len(text) THEN DecodeError
    ELSE IF ~IsScalarTok(text[i]) THEN DecodeError
    ELSE LET acc2 == [acc EXCEPT !.items = Append(@, Entry("", ScalarOf(text[i])))]
         IN  IF text[i + 1].k = "rbracket"
             THEN (IF i + 1 = Len(text) THEN Decoded(acc2) ELSE DecodeError)
             ELSE IF text[i + 1].k = "comma"
             THEN ParseElements(text, i + 2, acc2)
             ELSE DecodeError

\* json.load(f) on documents whose values are scalars
json_load(text) ==
    IF text = <<>> THEN DecodeError
    ELSE IF text[1].k = "lbrace"
    THEN (IF Len(text) >= 2 /\ text[2].k = "rbrace"
          THEN (IF Len(text) = 2 THEN Decoded(EmptyDict) ELSE DecodeError)
          ELSE ParseMembers(text, 2, EmptyDict))
    ELSE IF text[1].k = "lbracket"
    THEN (IF Len(text) >= 2 /\ text[2].k = "rbracket"
          THEN (IF Len(text) = 2 THEN Decoded(PyObj("list", <<>>)) ELSE DecodeError)
          ELSE ParseElements(text, 2, PyObj("list", <<>>)))
    ELSE IF Len(text) = 1 /\ IsScalarTok(text[1])
    THEN Decoded(PyObj(ScalarOf(text[1]).t, <<Entry("", ScalarOf(text[1]))>>))
    ELSE DecodeError

\* ------------------------------------------------------- operation results
\* sd: the inventory after the call; ret: the returned value; low: the
\* returned list of names; exc: the exception that left the call, if any;
\* log: the severities of the records sent to logging, in order.
Return(sd, ret, low, log) ==
    [sd |-> sd, ret |-> ret, low |-> low, exc |-> "none", log |-> log]

Raise(sd, exc, log) ==
    [sd |-> sd, ret |-> PyNone, low |-> <<>>, exc |-> exc, log |-> log]

\* isinstance(item, str) and item
ValidItem(item) == item.t = "str" /\ item.s # ""

\* isinstance(qty, int)
ValidQty(qty) == qty.t = "int"

\* ---------------------------------------------------------------- add_item
add_item_overwrite(sd, item, qty) ==
    IF ~ValidItem(item) THEN Return(sd, PyNone, <<>>, <<"error">>)
    ELSE IF ~ValidQty(qty) THEN Return(sd, PyNone, <<>>, <<"error">>)
    ELSE IF sd.t # "dict" THEN Raise(sd, "AttributeError", <<>>)
    ELSE Return(DictSet(sd, item.s, PyInt(qty.n)), PyNone, <<>>, <<"info">>)

add_item_noempty(sd, item, qty) ==
    IF item.t # "str" THEN Return(sd, PyNone, <<>>, <<"error">>)
    ELSE IF ~ValidQty(qty) THEN Return(sd, PyNone, <<>>, <<"error">>)
    ELSE IF sd.t # "dict" THEN Raise(sd, "AttributeError", <<>>)
    ELSE LET cur == DictGet(sd, item.s, PyInt(0))
         IN  IF cur.t # "int" THEN Raise(sd, "TypeError", <<>>)
             ELSE Return(DictSet(sd, item.s, PyInt(cur.n + qty.n)),
                         PyNone, <<>>, <<"info">>)

add_item_unified(sd, item, qty) ==
    IF ~ValidItem(item) THEN Return(sd, PyNone, <<>>, <<"error">>)
    ELSE IF ~ValidQty(qty) THEN Return(sd, PyNone, <<>>, <<"error">>)
    ELSE IF sd.t # "dict" THEN Raise(sd, "AttributeError", <<>>)
    ELSE LET cur == DictGet(sd, item.s, PyInt(0))
         IN  IF cur.t # "int" THEN Raise(sd, "TypeError", <<>>)
             ELSE IF cur.n + qty.n <= 0
             THEN Return(DictDel(sd, item.s), PyNone, <<>>, <<"info">>)
             ELSE Return(DictSet(sd, item.s, PyInt(cur.n + qty.n)),
                         PyNone, <<>>, <<"info">>)

add_item(sd, item, qty) ==
    IF ~ValidItem(item) THEN Return(sd, PyNone, <<>>, <<"error">>)
    ELSE IF ~ValidQty(qty) THEN Return(sd, PyNone, <<>>, <<"error">>)
    \* stock_data.get on a value that is not a dict
    ELSE IF sd.t # "dict" THEN Raise(sd, "AttributeError", <<>>)
    ELSE LET cur == DictGet(sd, item.s, PyInt(0))
         IN  \* str + int
             IF cur.t # "int" THEN Raise(sd, "TypeError", <<>>)
             ELSE Return(DictSet(sd, item.s, PyInt(cur.n + qty.n)),
                         PyNone, <<>>, <<"info">>)

\* ------------------------------------------------------------- remove_item
remove_item_clamp(sd, item, qty) ==
    IF ~ValidItem(item) THEN Return(sd, PyNone, <<>>, <<"error">>)
    ELSE IF ~ValidQty(qty) THEN Return(sd, PyNone, <<>>, <<"error">>)
    ELSE IF sd.t # "dict" THEN Raise(sd, "TypeError", <<>>)
    ELSE IF ~Has(sd, item.s) THEN Return(sd, PyNone, <<>>, <<"warning">>)
    ELSE LET cur == DictItem(sd, item.s)
         IN  IF cur.t # "int" THEN Raise(sd, "TypeError", <<>>)
             ELSE IF cur.n - qty.n < 0
             THEN Return(DictDel(sd, item.s), PyNone, <<>>, <<"info", "info">>)
             ELSE Return(DictSet(sd, item.s, PyInt(cur.n - qty.n)),
                         PyNone, <<>>, <<"info">>)

remove_item_default(sd, item, qty) ==
    IF ~ValidItem(item) THEN Return(sd, PyNone, <<>>, <<"error">>)
    ELSE IF ~ValidQty(qty) THEN Return(sd, PyNone, <<>>, <<"error">>)
    ELSE IF sd.t # "dict" THEN Raise(sd, "TypeError", <<>>)
    ELSE LET cur == DictGet(sd, item.s, PyInt(0))
         IN  IF cur.t # "int" THEN Raise(sd, "TypeError", <<>>)
             ELSE IF cur.n - qty.n <= 0
             THEN Return(DictDel(sd, item.s), PyNone, <<>>, <<"info", "info">>)
             ELSE Return(DictSet(sd, item.s, PyInt(cur.n - qty.n)),
                         PyNone, <<>>, <<"info">>)

remove_item_nodelete(sd, item, qty) ==
    IF ~ValidItem(item) THEN Return(sd, PyNone, <<>>, <<"error">>)
    ELSE IF ~ValidQty(qty) THEN Return(sd, PyNone, <<>>, <<"error">>)
    ELSE IF sd.t # "dict" THEN Raise(sd, "TypeError", <<>>)
    ELSE IF ~Has(sd, item.s) THEN Return(sd, PyNone, <<>>, <<"warning">>)
    ELSE LET cur == DictItem(sd, item.s)
         IN  IF cur.t # "int" THEN Raise(sd, "TypeError", <<>>)
             ELSE Return(DictSet(sd, item.s, PyInt(cur.n - qty.n)),
                         PyNone, <<>>, <<"info">>)

remove_item(sd, item, qty) ==
    IF ~ValidItem(item) THEN Return(sd, PyNone, <<>>, <<"error">>)
    ELSE IF ~ValidQty(qty) THEN Return(sd, PyNone, <<>>, <<"error">>)
    \* stock_data[item] on a list or a scalar: not a KeyError
    ELSE IF sd.t # "dict" THEN Raise(sd, "TypeError", <<>>)
    \* KeyError, caught
    ELSE IF ~Has(sd, item.s) THEN Return(sd, PyNone, <<>>, <<"warning">>)
    ELSE LET cur == DictItem(sd, item.s)
         IN  \* str - int, raised before anything is stored
             IF cur.t # "int" THEN Raise(sd, "TypeError", <<>>)
             ELSE IF cur.n - qty.n <= 0
             THEN Return(DictDel(sd, item.s), PyNone, <<>>, <<"info", "info">>)
             ELSE Return(DictSet(sd, item.s, PyInt(cur.n - qty.n)),
                         PyNone, <<>>, <<"info">>)

\* ----------------------------------------------------------------- get_qty
get_qty(sd, item) ==
    IF sd.t = "dict"
    THEN (IF item.t = "str" /\ Has(sd, item.s)
          THEN Return(sd, DictItem(sd, item.s), <<>>, <<>>)
          ELSE Return(sd, PyInt(0), <<>>, <<"warning">>))
    \* an index beyond the end of a list or a string
    ELSE IF sd.t \in {"list", "str"} /\ item.t = "int"
    THEN Raise(sd, "IndexError", <<>>)
    ELSE Raise(sd, "TypeError", <<>>)

\* --------------------------------------------------------- check_low_items
RECURSIVE LowNames(_, _)
LowNames(items, threshold) ==
    IF items = <<>> THEN <<>>
    ELSE (IF PyLess(Head(items).v, threshold) THEN <<Head(items).k>> ELSE <<>>)
         \o LowNames(Tail(items), threshold)

check_low_items(sd, threshold) ==
    \* .items() on a value that is not a dict
    IF sd.t # "dict" THEN Raise(sd, "AttributeError", <<>>)
    ELSE IF \E i \in 1..Len(sd.items) : ~Comparable(sd.items[i].v, threshold)
    THEN Raise(sd, "TypeError", <<>>)
    ELSE Return(sd, PyNone, LowNames(sd.items, threshold), <<>>)

\* ------------------------------------------------------------ backing file
\* st: "missing", "ok" (readable and writable), "readonly", or "unreadable"
\* (neither readable nor writable by this process).
File(st, text) == [st |-> st, text |-> text]

load_data(f) ==
    \* FileNotFoundError, caught
    IF f.st = "missing" THEN Return(EmptyDict, PyNone, <<>>, <<"warning">>)
    \* PermissionError is not among the caught exceptions
    ELSE IF f.st = "unreadable" THEN Raise(EmptyDict, "PermissionError", <<>>)
    ELSE IF ~json_load(f.text).ok
    THEN Return(EmptyDict, PyNone, <<>>, <<"warning">>)
    ELSE Return(json_load(f.text).val, PyNone, <<>>, <<>>)

save_data(sd, f) ==
    \* IOError on open, caught
    IF f.st \in {"readonly", "unreadable"}
    THEN [file |-> f, log |-> <<"error">>]
    ELSE [file |-> File("ok", json_dump(sd)), log |-> <<"info">>]

\* ------------------------------------------------------------------ inputs
ValidItemArgs == {PyStr(i) : i \in Items}

\* the empty string and a number
InvalidItemArgs == {PyStr(""), PyInt(123)}

ItemArgs == ValidItemArgs \cup InvalidItemArgs

IntQtyArgs == {PyInt(n) : n \in (0 - MaxQty)..MaxQty}

PositiveQtyArgs == {PyInt(n) : n \in 1..MaxQty}

\* qty arguments: integers of either sign and a string
QtyArgs == IntQtyArgs \cup {PyStr("ten")}

\* (item, qty) pairs: every qty with the names, an integer and a string
\* with the invalid items
MutationArgs ==
    [item : ValidItemArgs, qty : QtyArgs]
    \cup [item : InvalidItemArgs, qty : {PyInt(1), PyStr("ten")}]

IntThresholdArgs == {PyInt(n) : n \in 0..MaxQty} \cup {PyInt(DefaultThreshold)}

ThresholdArgs == IntThresholdArgs \cup {PyStr("ten")}

Dict1(k1, v1) == PyObj("dict", <<Entry(k1, v1)>>)

Dict2(k1, v1, k2, v2) == PyObj("dict", <<Entry(k1, v1), Entry(k2, v2)>>)

\* contents the backing file may hold when the program starts: an empty
\* file, a truncated object, an object that repeats a key, an array, a
\* number, and objects with large, zero, negative and textual values
FileTexts ==
    { <<>>,
      <<LBrace, TStr("apple")>>,
      <<LBrace, TStr("apple"), Colon, TNum(1), Comma,
        TStr("apple"), Colon, TNum(2), RBrace>>,
      <<LBracket, TNum(1), Comma, TNum(2), RBracket>>,
      <<TNum(3)>>,
      json_dump(Dict2("apple", PyInt(10), "orange", PyInt(3))),
      json_dump(Dict2("apple", PyInt(0), "orange", PyInt(-1))),
      json_dump(Dict1("apple", PyStr("ten"))) }

InitFiles ==
    {File("missing", <<>>), File("unreadable", <<>>),
     File("readonly", json_dump(Dict1("orange", PyInt(1))))}
    \cup {File("ok", text) : text \in FileTexts}

\* ------------------------------------------------------------------- state
\* call: the last call made, its arguments and its outcome.
\* old: the inventory as it was when that call was made.
Call(op, item, qty, r) ==
    [op |-> op, item |-> item, qty |-> qty, ret |-> r.ret, low |-> r.low,
     exc |-> r.exc, log |-> r.log]

NoCall == Call("none", PyNone, PyNone, Return(EmptyDict, PyNone, <<>>, <<>>))

NoArgs == [item |-> "", a |-> 0, b |-> 0, c |-> 0]

\* quantities are unbounded in the program; the model explores the stored
\* quantities up to MaxStock and leaves larger ones as they were loaded
Bounded(new, prev) ==
    \A i \in 1..Len(new.items) :
        \/ new.items[i].v.t # "int"
        \/ Abs(new.items[i].v.n) <= MaxStock
        \/ new.items[i] \in Range(prev.items)

\* an uncaught exception ends the process
Running == call.exc = "none"

\* pc follows main(): the operations of a run ("idle"), the save that ends
\* it ("saved"), and the load that starts the next run ("reloaded")
Init ==
    /\ stock_data = EmptyDict
    /\ file \in InitFiles
    /\ call = NoCall
    /\ old = EmptyDict
    /\ pc = "idle"
    /\ args = NoArgs

\* ----------------------------------------------------------------- actions
AddItem(item, qty) ==
    LET r == add_item(stock_data, item, qty)
    IN  /\ Running
        /\ pc = "idle"
        /\ Bounded(r.sd, stock_data)
        /\ stock_data' = r.sd
        /\ call' = Call("add_item", item, qty, r)
        /\ old' = stock_data
        /\ UNCHANGED <<file, pc, args>>

RemoveItem(item, qty) ==
    LET r == remove_item(stock_data, item, qty)
    IN  /\ Running
        /\ pc = "idle"
        /\ Bounded(r.sd, stock_data)
        /\ stock_data' = r.sd
        /\ call' = Call("remove_item", item, qty, r)
        /\ old' = stock_data
        /\ UNCHANGED <<file, pc, args>>

GetQty(item) ==
    LET r == get_qty(stock_data, item)
    IN  /\ Running
        /\ stock_data' = r.sd
        /\ call' = Call("get_qty", item, PyNone, r)
        /\ old' = stock_data
        /\ UNCHANGED <<file, pc, args>>

CheckLowItems(threshold) ==
    LET r == check_low_items(stock_data, threshold)
    IN  /\ Running
        /\ stock_data' = r.sd
        /\ call' = Call("check_low_items", PyNone, threshold, r)
        /\ old' = stock_data
        /\ UNCHANGED <<file, pc, args>>

LoadData ==
    LET r == load_data(file)
    IN  /\ Running
        /\ stock_data' = r.sd
        /\ call' = Call("load_data", PyNone, PyNone, r)
        /\ old' = stock_data
        /\ pc' = IF pc = "idle" THEN "idle" ELSE "reloaded"
        /\ UNCHANGED <<file, args>>

SaveData ==
    LET r == save_data(stock_data, file)
    IN  /\ Running
        /\ pc = "idle"
        /\ file' = r.file
        /\ call' = Call("save_data", PyNone, PyNone,
                        Return(stock_data, PyNone, <<>>, r.log))
        /\ old' = stock_data
        /\ pc' = "saved"
        /\ UNCHANGED <<stock_data, args>>

\* every operation with every argument
Next ==
    \/ \E a \in MutationArgs : AddItem(a.item, a.qty)
    \/ \E a \in MutationArgs : RemoveItem(a.item, a.qty)
    \/ \E item \in ItemArgs : GetQty(item)
    \/ \E threshold \in ThresholdArgs : CheckLowItems(threshold)
    \/ LoadData
    \/ SaveData

Spec == Init /\ [][Next]_vars

\* a caller that starts from the empty inventory, never loads, and adds
\* strictly positive integer quantities only
NextPositive ==
    \/ \E item \in ItemArgs, qty \in PositiveQtyArgs : AddItem(item, qty)
    \/ \E item \in ItemArgs, qty \in IntQtyArgs : RemoveItem(item, qty)
    \/ \E item \in ItemArgs : GetQty(item)
    \/ \E threshold \in IntThresholdArgs : CheckLowItems(threshold)
    \/ SaveData

SpecPositive == Init /\ [][NextPositive]_vars

\* ------------------------------------------------ the scenario of main()
\* add a, add b, query, remove c, query, on one item that the starting
\* inventory does not hold
StockValues ==
    {PyInt(n) : n \in (0 - MaxStock)..MaxStock} \cup {PyStr("ten")}

StartInventories(item) ==
    {EmptyDict} \cup {Dict1(k, v) : k \in Items \ {item}, v \in StockValues}

ScenarioArgs ==
    [item : Items, a : (0 - MaxQty)..MaxQty, b : (0 - MaxQty)..MaxQty,
     c : (0 - MaxQty)..MaxQty]

InitScenario ==
    /\ args \in ScenarioArgs
    /\ stock_data \in StartInventories(args.item)
    /\ file = File("missing", <<>>)
    /\ call = NoCall
    /\ old = stock_data
    /\ pc = "add_a"

MainAddA ==
    LET r == add_item(stock_data, PyStr(args.item), PyInt(args.a))
    IN  /\ pc = "add_a"
        /\ pc' = "add_b"
        /\ stock_data' = r.sd
        /\ call' = Call("add_item", PyStr(args.item), PyInt(args.a), r)
        /\ old' = stock_data
        /\ UNCHANGED <<file, args>>

MainAddB ==
    LET r == add_item(stock_data, PyStr(args.item), PyInt(args.b))
    IN  /\ pc = "add_b"
        /\ pc' = "get_sum"
        /\ stock_data' = r.sd
        /\ call' = Call("add_item", PyStr(args.item), PyInt(args.b), r)
        /\ old' = stock_data
        /\ UNCHANGED <<file, args>>

MainGetSum ==
    LET r == get_qty(stock_data, PyStr(args.item))
    IN  /\ pc = "get_sum"
        /\ pc' = "remove_c"
        /\ stock_data' = r.sd
        /\ call' = Call("get_qty", PyStr(args.item), PyNone, r)
        /\ old' = stock_data
        /\ UNCHANGED <<file, args>>

MainRemoveC ==
    LET r == remove_item(stock_data, PyStr(args.item), PyInt(args.c))
    IN  /\ pc = "remove_c"
        /\ pc' = "get_rest"
        /\ stock_data' = r.sd
        /\ call' = Call("remove_item", PyStr(args.item), PyInt(args.c), r)
        /\ old' = stock_data
        /\ UNCHANGED <<file, args>>

MainGetRest ==
    LET r == get_qty(stock_data, PyStr(args.item))
    IN  /\ pc = "get_rest"
        /\ pc' = "done"
        /\ stock_data' = r.sd
        /\ call' = Call("get_qty", PyStr(args.item), PyNone, r)
        /\ old' = stock_data
        /\ UNCHANGED <<file, args>>

NextScenario ==
    \/ MainAddA
    \/ MainAddB
    \/ MainGetSum
    \/ MainRemoveC
    \/ MainGetRest

SpecScenario == InitScenario /\ [][NextScenario]_vars

\* ------------------------------------------------------------- properties
\* an inventory of the data model: a dict whose values are all integers
IntDict(d) ==
    /\ d.t = "dict"
    /\ \A i \in 1..Len(d.items) : d.items[i].v.t = "int"

\* same keys, same values
SameInventory(d, e) ==
    /\ d.t = "dict"
    /\ e.t = "dict"
    /\ Keys(d) = Keys(e)
    /\ \A k \in Keys(d) : DictItem(d, k) = DictItem(e, k)

\* the last call was op(item, qty) with a non-empty text item and an
\* integer qty
ValidCall(op) ==
    /\ call.op = op
    /\ call.item.t = "str"
    /\ call.item.s # ""
    /\ call.qty.t = "int"

\* C1: removing at least the current quantity of a present item leaves the
\* item absent: get_qty then returns 0 and check_low_items lists it for no
\* threshold.
C1_RemoveAtLeastCurrentDeletes ==
    ( /\ ValidCall("remove_item")
      /\ Has(old, call.item.s)
      /\ DictItem(old, call.item.s).t = "int"
      /\ call.qty.n >= DictItem(old, call.item.s).n )
    => /\ call.exc = "none"
       /\ ~Has(stock_data, call.item.s)
       /\ get_qty(stock_data, call.item).ret = PyInt(0)
       /\ \A t \in IntThresholdArgs :
              call.item.s \notin Range(check_low_items(stock_data, t).low)

C1_Witness ==
    /\ ValidCall("remove_item")
    /\ Has(old, call.item.s)
    /\ DictItem(old, call.item.s).t = "int"
    /\ DictItem(old, call.item.s).n > 0
    /\ call.qty.n > DictItem(old, call.item.s).n
    /\ Len(old.items) = 2
    /\ ~Has(stock_data, call.item.s)

\* C2: from an inventory without the item, add a then add b (a, b >= 0)
\* makes get_qty return a + b, and a following remove of c < a + b makes
\* it return a + b - c.
C2_AddTwiceThenRemove ==
    /\ (pc = "remove_c" /\ args.a >= 0 /\ args.b >= 0)
       => /\ call.op = "get_qty"
          /\ call.exc = "none"
          /\ call.ret = PyInt(args.a + args.b)
    /\ (pc = "done" /\ args.a >= 0 /\ args.b >= 0 /\ args.c < args.a + args.b)
       => /\ call.op = "get_qty"
          /\ call.exc = "none"
          /\ call.ret = PyInt(args.a + args.b - args.c)

C2_Witness ==
    /\ pc = "done"
    /\ args.a = 2
    /\ args.b = 1
    /\ args.c = 1
    /\ call.ret = PyInt(2)

\* C3: add_item and remove_item with an empty or non-text item, or with a
\* non-integer qty, leave the inventory as it was and return normally.
C3_InvalidArgsNoMutation ==
    ( /\ call.op \in {"add_item", "remove_item"}
      /\ (call.item.t # "str" \/ call.item.s = "" \/ call.qty.t # "int") )
    => /\ stock_data = old
       /\ call.exc = "none"
       /\ call.ret = PyNone

C3_Witness ==
    /\ call.op = "add_item"
    /\ call.item = PyStr("")
    /\ call.qty = PyInt(1)
    /\ Len(old.items) = 1
    /\ stock_data = old

\* C4: remove_item (integer qty) and get_qty of an item that is not in the
\* inventory change nothing, and get_qty returns 0.
C4_AbsentItemNoOp ==
    ( /\ old.t = "dict"
      /\ call.op \in {"remove_item", "get_qty"}
      /\ ~(call.item.t = "str" /\ Has(old, call.item.s))
      /\ (call.op = "remove_item" => call.qty.t = "int") )
    => /\ stock_data = old
       /\ call.exc = "none"
       /\ (call.op = "get_qty" => call.ret = PyInt(0))

C4_Witness ==
    /\ ValidCall("remove_item")
    /\ call.qty.n < 0
    /\ Len(old.items) = 1
    /\ ~Has(old, call.item.s)
    /\ stock_data = old

\* C5: save_data never changes the inventory, and when it has written an
\* inventory of integer quantities, load_data of the file returns an
\* inventory with the same keys and the same values.
C5_SaveLoadRoundTrip ==
    call.op = "save_data"
    => /\ stock_data = old
       /\ call.exc = "none"
       /\ (IntDict(stock_data) /\ call.log = <<"info">>)
          => /\ load_data(file).exc = "none"
             /\ SameInventory(load_data(file).sd, stock_data)

C5_Witness ==
    /\ call.op = "save_data"
    /\ call.log = <<"info">>
    /\ IntDict(stock_data)
    /\ Len(stock_data.items) = 2
    /\ \E i \in 1..2 : stock_data.items[i].v.n < 0
    /\ \E i \in 1..2 : stock_data.items[i].v.n > 0
    /\ load_data(file).sd = stock_data

\* the text is a JSON object
IsObjectText(text) ==
    /\ text # <<>>
    /\ text[1].k = "lbrace"
    /\ json_load(text).ok

\* C6: load_data never raises and always returns a dict, the empty one when
\* the file is missing or does not hold a JSON object.
C6_LoadReturnsInventory ==
    call.op = "load_data"
    => /\ call.exc = "none"
       /\ stock_data.t = "dict"
       /\ (file.st = "missing" \/ ~IsObjectText(file.text))
          => stock_data = EmptyDict

\* C7: no call ends with an exception.
C7_NoAbnormalTermination == call.exc = "none"

\* C8: check_low_items returns exactly the names whose quantity is strictly
\* below the threshold, each once, in insertion order, and changes nothing.
C8_CheckLowItems ==
    ( /\ call.op = "check_low_items"
      /\ call.qty.t = "int"
      /\ IntDict(old) )
    => /\ call.exc = "none"
       /\ stock_data = old
       /\ Range(call.low) \subseteq Keys(old)
       /\ \A k \in Keys(old) :
              (k \in Range(call.low)) <=> (DictItem(old, k).n < call.qty.n)
       /\ \A i, j \in 1..Len(call.low) :
              i < j => Find(old, call.low[i]) < Find(old, call.low[j])

C8_Witness ==
    /\ call.op = "check_low_items"
    /\ call.qty = PyInt(DefaultThreshold)
    /\ old = Dict2("apple", PyInt(10), "orange", PyInt(3))
    /\ call.low = <<"orange">>

\* C9: add_item with a valid item and an integer qty leaves the item
\* present with its previous quantity (0 if absent) plus qty, also when
\* that is zero or negative; remove_item deletes the item whenever its
\* result is zero or negative.
C9_AddNeverDeletes ==
    /\ ( /\ ValidCall("add_item")
         /\ old.t = "dict"
         /\ DictGet(old, call.item.s, PyInt(0)).t = "int" )
       => /\ call.exc = "none"
          /\ Has(stock_data, call.item.s)
          /\ DictItem(stock_data, call.item.s)
               = PyInt(DictGet(old, call.item.s, PyInt(0)).n + call.qty.n)
    /\ ( /\ ValidCall("remove_item")
         /\ Has(old, call.item.s)
         /\ DictItem(old, call.item.s).t = "int"
         /\ DictItem(old, call.item.s).n - call.qty.n <= 0 )
       => ~Has(stock_data, call.item.s)

C9_Witness ==
    /\ ValidCall("add_item")
    /\ old = Dict1(call.item.s, PyInt(1))
    /\ call.qty.n = 0 - 2
    /\ stock_data = Dict1(call.item.s, PyInt(0 - 1))

\* C10: from the empty inventory, with strictly positive quantities added,
\* every key holds a quantity above zero, and an add_item or remove_item
\* call changes no entry but that of the item it names.
C10_PositiveQuantities ==
    /\ stock_data.t = "dict"
    /\ \A i \in 1..Len(stock_data.items) :
           /\ stock_data.items[i].v.t = "int"
           /\ stock_data.items[i].v.n > 0
    /\ call.op \in {"add_item", "remove_item"}
       => \A k \in (Keys(old) \cup Keys(stock_data)) \ {call.item.s} :
              /\ Has(old, k)
              /\ Has(stock_data, k)
              /\ DictItem(old, k) = DictItem(stock_data, k)

C10_Witness ==
    /\ ValidCall("remove_item")
    /\ Len(old.items) = 2
    /\ Len(stock_data.items) = 1
    /\ call.qty.n > DictItem(old, call.item.s).n

====
